---- MODULE Spec2Model ----
(***************************************************************************)
(* Preprocessing of a translation unit that includes                       *)
(* tepismat/backends/openslide/include/matlab-openslide-wrapper.h.         *)
(*                                                                         *)
(* The wrapper is kept as its eight lines of text (WrapperText) and is     *)
(* interpreted directive by directive by a small C preprocessor: a macro   *)
(* table, an include stack, the diagnostics issued so far.  The            *)
(* translation unit includes the wrapper one or more times; the macro      *)
(* table it starts from holds whatever the host environment and the        *)
(* command line defined before the first inclusion.  openslide.h is an     *)
(* external header: only what the wrapper relies on is modelled (it        *)
(* selects its declarations on OPENSLIDE_SIMPLIFY_HEADERS, and its chain   *)
(* of headers may or may not include the wrapper again).                   *)
(***************************************************************************)
EXTENDS Naturals, Sequences, FiniteSets

VARIABLES macros, decls, osMode, stack, execLog, diags, status,
          started, completed, available, chainReenters

vars == << macros, decls, osMode, stack, execLog, diags, status,
           started, completed, available, chainReenters >>

(***************************************************************************)
(* Bounds                                                                  *)
(***************************************************************************)
\* number of times the translation unit writes #include of the wrapper
MaxIncludes == 3
\* include nesting limit of the preprocessor (frames above the translation unit)
MaxDepth == 6

(***************************************************************************)
(* Names                                                                   *)
(***************************************************************************)
GUARD == "MATLAB_OPENSLIDE_WRAPPER_H"
SIMPLIFY == "OPENSLIDE_SIMPLIFY_HEADERS"
OPENSLIDE_H == "openslide.h"

\* macros of the host environment, defined before the wrapper is included
HostMacros == {"HOST_A", "HOST_B"}
\* replacement lists a macro defined before the inclusion can have
Bodies == {"", "1"}
\* macro names the translation unit may have defined before the first
\* inclusion; the guard name is private to the wrapper
PriorNames == HostMacros \cup {SIMPLIFY}

\* declarations openslide.h exports in simplified mode / in full mode
SimplifiedDecls == {"openslide_open", "openslide_read_region", "openslide_close"}
FullDecls == SimplifiedDecls \cup {"openslide_can_open", "openslide_get_layer_count"}

(***************************************************************************)
(* The wrapper, line by line                                               *)
(***************************************************************************)
Line(op, name, body) == [op |-> op, name |-> name, body |-> body]

\* variants of the text used to test that the properties depend on it
WrapperText_NoGuardDefine ==
  << Line("comment", "", ""), Line("comment", "", ""), Line("blank", "", ""),
     Line("ifndef", GUARD, ""),
     Line("blank", "", ""),
     Line("define", SIMPLIFY, ""),
     Line("include", OPENSLIDE_H, ""),
     Line("endif", "", "") >>

WrapperText_GuardTypo ==
  << Line("comment", "", ""), Line("comment", "", ""), Line("blank", "", ""),
     Line("ifndef", "MATLAB_OPENSLIDE_WRAPPER", ""),
     Line("define", GUARD, ""),
     Line("define", SIMPLIFY, ""),
     Line("include", OPENSLIDE_H, ""),
     Line("endif", "", "") >>

WrapperText_GuardAfterInclude ==
  << Line("comment", "", ""), Line("comment", "", ""), Line("blank", "", ""),
     Line("ifndef", GUARD, ""),
     Line("define", SIMPLIFY, ""),
     Line("include", OPENSLIDE_H, ""),
     Line("define", GUARD, ""),
     Line("endif", "", "") >>

WrapperText_IncludeBeforeDefine ==
  << Line("comment", "", ""), Line("comment", "", ""), Line("blank", "", ""),
     Line("ifndef", GUARD, ""),
     Line("define", GUARD, ""),
     Line("include", OPENSLIDE_H, ""),
     Line("define", SIMPLIFY, ""),
     Line("endif", "", "") >>

WrapperText_NoSimplify ==
  << Line("comment", "", ""), Line("comment", "", ""), Line("blank", "", ""),
     Line("ifndef", GUARD, ""),
     Line("define", GUARD, ""),
     Line("blank", "", ""),
     Line("include", OPENSLIDE_H, ""),
     Line("endif", "", "") >>

WrapperText_WrongMacro ==
  << Line("comment", "", ""), Line("comment", "", ""), Line("blank", "", ""),
     Line("ifndef", GUARD, ""),
     Line("define", GUARD, ""),
     Line("define", "HOST_A", ""),
     Line("define", SIMPLIFY, ""),
     Line("include", OPENSLIDE_H, ""),
     Line("endif", "", "") >>

WrapperText_NoInclude ==
  << Line("comment", "", ""), Line("comment", "", ""), Line("blank", "", ""),
     Line("ifndef", GUARD, ""),
     Line("define", GUARD, ""),
     Line("define", SIMPLIFY, ""),
     Line("blank", "", ""),
     Line("endif", "", "") >>

WrapperText ==
  << Line("comment", "", ""),               \* 1  // Openslide header wrapper ...
     Line("comment", "", ""),               \* 2  // https://github.com/...
     Line("blank", "", ""),                 \* 3
     Line("ifndef", GUARD, ""),             \* 4  #ifndef MATLAB_OPENSLIDE_WRAPPER_H
     Line("define", GUARD, ""),             \* 5  #define MATLAB_OPENSLIDE_WRAPPER_H
     Line("define", SIMPLIFY, ""),          \* 6  #define OPENSLIDE_SIMPLIFY_HEADERS
     Line("include", OPENSLIDE_H, ""),      \* 7  #include <openslide.h>
     Line("endif", "", "") >>               \* 8  #endif

(***************************************************************************)
(* Preprocessor helpers                                                    *)
(***************************************************************************)
Defined(name) == name \in DOMAIN macros

\* the macro table after "#define name body"
Define(m, name, body) ==
  [x \in DOMAIN m \cup {name} |-> IF x = name THEN body ELSE m[x]]

\* the line of the #endif that closes the #ifndef at line i
MatchingEndif(i) ==
  CHOOSE j \in (i + 1)..Len(WrapperText) :
    /\ WrapperText[j].op = "endif"
    /\ \A k \in (i + 1)..(j - 1) : WrapperText[k].op # "endif"

Depth == Len(stack)
Top == stack[Depth]
Running == status = "running"
InWrapper == Running /\ Depth > 0 /\ Top.file = "wrapper"
InOpenslide == Running /\ Depth > 0 /\ Top.file = "openslide"
AtLine == InWrapper /\ Top.pc <= Len(WrapperText)
Cur == WrapperText[Top.pc]

Frame(file, pc) == [file |-> file, pc |-> pc]
\* the stack with the top frame moved to line pc
Goto(pc) == [stack EXCEPT ![Depth] = Frame(Top.file, pc)]
Pop == SubSeq(stack, 1, Depth - 1)

Executed(op, name) ==
  [op |-> op, name |-> name, incl |-> started, depth |-> Depth]
Diag(kind, name, line) == [kind |-> kind, name |-> name, line |-> line]

(***************************************************************************)
(* Initial state: nothing preprocessed yet                                 *)
(***************************************************************************)
Init ==
  /\ \E S \in SUBSET PriorNames : macros \in [S -> Bodies]
  /\ decls = {}
  /\ osMode = "none"
  /\ stack = << >>
  /\ execLog = << >>
  /\ diags = {}
  /\ status = "running"
  /\ started = 0
  /\ completed = 0
  /\ available \in BOOLEAN
  /\ chainReenters \in BOOLEAN

(***************************************************************************)
(* The translation unit                                                    *)
(***************************************************************************)
\* #include "matlab-openslide-wrapper.h" written in the translation unit
TUInclude ==
  /\ Running /\ Depth = 0
  /\ started < MaxIncludes
  /\ started' = started + 1
  /\ stack' = << Frame("wrapper", 1) >>
  /\ UNCHANGED << macros, decls, osMode, execLog, diags, status, completed,
                  available, chainReenters >>

\* end of the translation unit, after at least one inclusion
TUEnd ==
  /\ Running /\ Depth = 0
  /\ completed >= 1
  /\ status' = "done"
  /\ UNCHANGED << macros, decls, osMode, stack, execLog, diags, started,
                  completed, available, chainReenters >>

(***************************************************************************)
(* The wrapper's directives                                                *)
(***************************************************************************)
\* lines 1-3: comments and the blank line
StepSkip ==
  /\ AtLine /\ Cur.op \in {"comment", "blank"}
  /\ stack' = Goto(Top.pc + 1)
  /\ UNCHANGED << macros, decls, osMode, execLog, diags, status, started,
                  completed, available, chainReenters >>

\* line 4: #ifndef; a defined name skips the group up to its #endif
StepIfndef ==
  /\ AtLine /\ Cur.op = "ifndef"
  /\ stack' = IF Defined(Cur.name) THEN Goto(MatchingEndif(Top.pc))
                                   ELSE Goto(Top.pc + 1)
  /\ UNCHANGED << macros, decls, osMode, execLog, diags, status, started,
                  completed, available, chainReenters >>

\* lines 5-6: #define with an empty replacement list; redefining a macro
\* whose replacement list differs is diagnosed and the new definition wins
StepDefine ==
  /\ AtLine /\ Cur.op = "define"
  /\ macros' = Define(macros, Cur.name, Cur.body)
  /\ diags' = IF Defined(Cur.name) /\ macros[Cur.name] # Cur.body
                THEN diags \cup {Diag("redefined", Cur.name, Top.pc)}
                ELSE diags
  /\ execLog' = Append(execLog, Executed("define", Cur.name))
  /\ stack' = Goto(Top.pc + 1)
  /\ UNCHANGED << decls, osMode, status, started, completed, available,
                  chainReenters >>

\* line 7: #include <openslide.h>; a header that is not found, or nesting
\* beyond the limit, is a fatal error and preprocessing stops
StepInclude ==
  /\ AtLine /\ Cur.op = "include"
  /\ execLog' = Append(execLog, Executed("include", Cur.name))
  /\ IF ~available
       THEN /\ diags' = diags \cup {Diag("missing", Cur.name, Top.pc)}
            /\ status' = "fatal"
            /\ stack' = stack
       ELSE IF Depth >= MaxDepth
         THEN /\ diags' = diags \cup {Diag("depth", Cur.name, Top.pc)}
              /\ status' = "fatal"
              /\ stack' = stack
         ELSE /\ stack' = Append(Goto(Top.pc + 1), Frame("openslide", 1))
              /\ UNCHANGED << diags, status >>
  /\ UNCHANGED << macros, decls, osMode, started, completed, available,
                  chainReenters >>

\* line 8: #endif
StepEndif ==
  /\ AtLine /\ Cur.op = "endif"
  /\ stack' = Goto(Top.pc + 1)
  /\ UNCHANGED << macros, decls, osMode, execLog, diags, status, started,
                  completed, available, chainReenters >>

\* end of the wrapper: back to the file that included it
WrapperEOF ==
  /\ InWrapper /\ Top.pc > Len(WrapperText)
  /\ stack' = Pop
  /\ completed' = IF Depth = 1 THEN completed + 1 ELSE completed
  /\ UNCHANGED << macros, decls, osMode, execLog, diags, status, started,
                  available, chainReenters >>

(***************************************************************************)
(* openslide.h (external)                                                  *)
(***************************************************************************)
\* the header selects its declarations on OPENSLIDE_SIMPLIFY_HEADERS
OpenslideBody ==
  /\ InOpenslide /\ Top.pc = 1
  /\ osMode' = IF Defined(SIMPLIFY) THEN "simplified" ELSE "full"
  /\ decls' = decls \cup (IF Defined(SIMPLIFY) THEN SimplifiedDecls ELSE FullDecls)
  /\ stack' = Goto(2)
  /\ UNCHANGED << macros, execLog, diags, status, started, completed,
                  available, chainReenters >>

\* a header of the chain includes the wrapper again
OpenslideReenter ==
  /\ InOpenslide /\ Top.pc = 2 /\ chainReenters
  /\ IF Depth >= MaxDepth
       THEN /\ diags' = diags \cup {Diag("depth", "matlab-openslide-wrapper.h", 0)}
            /\ status' = "fatal"
            /\ stack' = stack
       ELSE /\ stack' = Append(Goto(3), Frame("wrapper", 1))
            /\ UNCHANGED << diags, status >>
  /\ UNCHANGED << macros, decls, osMode, execLog, started, completed,
                  available, chainReenters >>

\* end of openslide.h: back to line 8 of the wrapper
OpenslideEOF ==
  /\ InOpenslide
  /\ Top.pc = 3 \/ (Top.pc = 2 /\ ~chainReenters)
  /\ stack' = Pop
  /\ UNCHANGED << macros, decls, osMode, execLog, diags, status, started,
                  completed, available, chainReenters >>

Next ==
  \/ TUInclude
  \/ TUEnd
  \/ StepSkip
  \/ StepIfndef
  \/ StepDefine
  \/ StepInclude
  \/ StepEndif
  \/ WrapperEOF
  \/ OpenslideBody
  \/ OpenslideReenter
  \/ OpenslideEOF

Spec == Init /\ [][Next]_vars

\* the preprocessor runs to the end of its input: it never stops midway
FairSpec == Spec /\ WF_vars(Next)

(***************************************************************************)
(* Type invariant                                                          *)
(***************************************************************************)
TypeOK ==
  /\ DOMAIN macros \subseteq PriorNames \cup {GUARD}
  /\ decls \subseteq FullDecls
  /\ osMode \in {"none", "simplified", "full"}
  /\ status \in {"running", "done", "fatal"}
  /\ started \in 0..MaxIncludes
  /\ completed \in 0..started
  /\ Depth <= MaxDepth

(***************************************************************************)
(* Properties                                                              *)
(***************************************************************************)
\* positions of the log where the wrapper executed "#op name"
Execs(op, name) ==
  {i \in DOMAIN execLog : execLog[i].op = op /\ execLog[i].name = name}
Fatal == {d \in diags : d.kind \in {"missing", "depth"}}
OpenslideOnStack == \E k \in DOMAIN stack : stack[k].file = "openslide"
Terminated == status # "running"

\* C1: repeated inclusion is idempotent.  Once the first inclusion of the
\* wrapper has been completed, no later step changes the preprocessor state:
\* the macro table, the declarations, the inclusions of openslide.h and the
\* #define / #include directives executed stay as they were after the first
\* inclusion, and no further diagnostic (so no redefinition diagnostic) is
\* issued.
C1_RepeatedInclusionIdempotent ==
  [][completed >= 1 =>
       /\ macros' = macros
       /\ decls' = decls
       /\ osMode' = osMode
       /\ execLog' = execLog
       /\ diags' = diags]_vars

C1_Witness == completed >= 2 /\ Depth = 0 /\ Len(execLog) = 3

\* C2: OPENSLIDE_SIMPLIFY_HEADERS is defined before the wrapper includes
\* openslide.h.  Every execution of the wrapper's #include <openslide.h> is
\* preceded by an execution of #define OPENSLIDE_SIMPLIFY_HEADERS, and the
\* macro is defined whenever openslide.h is on the include stack.
C2_DefineBeforeInclude ==
  /\ \A i \in Execs("include", OPENSLIDE_H) :
       /\ \E j \in Execs("define", SIMPLIFY) : j < i
       /\ Defined(SIMPLIFY)
  /\ OpenslideOnStack => Defined(SIMPLIFY)

C2_Witness ==
  /\ InOpenslide /\ Top.pc = 1
  /\ Execs("include", OPENSLIDE_H) # {}

\* C3: the configuration macro is defined exactly once.  The wrapper's
\* #define OPENSLIDE_SIMPLIFY_HEADERS and its #include <openslide.h> are
\* never executed more than once, both have been executed once the first
\* inclusion is completed, and both were executed during the first inclusion
\* written in the translation unit.
C3_DefinedExactlyOnce ==
  /\ Cardinality(Execs("define", SIMPLIFY)) <= 1
  /\ Cardinality(Execs("include", OPENSLIDE_H)) <= 1
  /\ completed >= 1 =>
       /\ Cardinality(Execs("define", SIMPLIFY)) = 1
       /\ Cardinality(Execs("include", OPENSLIDE_H)) = 1
  /\ \A i \in DOMAIN execLog : execLog[i].incl = 1

C3_Witness ==
  /\ completed = MaxIncludes
  /\ Cardinality(Execs("define", SIMPLIFY)) = 1
  /\ Cardinality(Execs("include", OPENSLIDE_H)) = 1

\* C4: a translation unit that includes the wrapper gets openslide.h in
\* simplified mode.  The body of openslide.h is never processed with
\* OPENSLIDE_SIMPLIFY_HEADERS undefined, and the declarations it selects are
\* exactly the simplified ones.
C4_SimplifiedMode ==
  /\ osMode # "full"
  /\ osMode = "simplified" => decls = SimplifiedDecls
  /\ osMode = "none" => decls = {}
  /\ (InOpenslide /\ Top.pc = 1) => Defined(SIMPLIFY)

C4_Witness == status = "done" /\ osMode = "simplified" /\ decls = SimplifiedDecls

\* C5 as stated: a step of the wrapper introduces no name other than its two
\* macros, changes no declaration, and leaves every macro that was defined
\* before the step defined and with the same replacement list; all visible
\* declarations are the simplified ones.
C5_Original ==
  [][/\ InWrapper =>
          /\ (DOMAIN macros') \ (DOMAIN macros) \subseteq {GUARD, SIMPLIFY}
          /\ decls' = decls
          /\ osMode' = osMode
          /\ \A n \in DOMAIN macros :
               n \in DOMAIN macros' /\ macros'[n] = macros[n]
     /\ decls' \subseteq SimplifiedDecls]_vars

\* C5 amended: as above, except that OPENSLIDE_SIMPLIFY_HEADERS itself, when
\* it was already defined with a non-empty replacement list, is redefined by
\* the wrapper (it stays defined); every other macro defined before the step
\* keeps its definition.
C5_WrapperAddsOnlyItsMacros ==
  [][/\ InWrapper =>
          /\ (DOMAIN macros') \ (DOMAIN macros) \subseteq {GUARD, SIMPLIFY}
          /\ decls' = decls
          /\ osMode' = osMode
          /\ \A n \in DOMAIN macros :
               /\ n \in DOMAIN macros'
               /\ n # SIMPLIFY => macros'[n] = macros[n]
     /\ decls' \subseteq SimplifiedDecls]_vars

C5_Witness ==
  /\ completed >= 1
  /\ Defined("HOST_A") /\ macros["HOST_A"] = "1"
  /\ Defined(GUARD) /\ Defined(SIMPLIFY) /\ macros[SIMPLIFY] = ""
  /\ Diag("redefined", SIMPLIFY, 6) \in diags
  /\ decls = SimplifiedDecls

\* C6: with openslide.h available no fatal diagnostic is issued and a
\* finished translation unit has the simplified declarations; with
\* openslide.h missing the translation unit never finishes, nothing is
\* declared, and the one fatal diagnostic is the missing header at line 7 of
\* the wrapper, after which preprocessing has stopped (no fallback).
C6_MissingHeaderIsFatal ==
  /\ available => Fatal = {} /\ status # "fatal"
  /\ status = "done" => available /\ decls = SimplifiedDecls
  /\ ~available => status # "done" /\ decls = {} /\ osMode = "none"
  /\ Fatal # {} =>
       /\ Fatal = {Diag("missing", OPENSLIDE_H, 7)}
       /\ status = "fatal"
       /\ ~OpenslideOnStack

C6_Witness ==
  /\ ~available /\ status = "fatal"
  /\ Diag("missing", OPENSLIDE_H, 7) \in diags

\* C7: the guard is defined before the nested #include <openslide.h> is
\* entered, a re-entrant inclusion of the wrapper executes none of its
\* directives, the include nesting limit is never hit, and preprocessing
\* terminates.
C7_ReentryTerminates ==
  /\ [](/\ OpenslideOnStack => Defined(GUARD)
        /\ \A i \in DOMAIN execLog : execLog[i].depth = 1
        /\ \A d \in diags : d.kind # "depth"
        /\ Depth <= 3)
  /\ <>Terminated

C7_Witness ==
  /\ Depth = 3 /\ InWrapper /\ Top.pc = Len(WrapperText)
  /\ chainReenters
====
